---- MODULE Spec2Model ----
(***************************************************************************)
(* Model of the notebook test harness of landlab/tutorials                 *)
(* (src/run_notebook.py): the `run` subcommand, its coordinator loop, the  *)
(* executor run_notebook with its working-directory scope and temporary    *)
(* script file, the pattern matcher and the reporter.                      *)
(*                                                                         *)
(* Strings are sequences of one-character strings, so that strip, dirname, *)
(* basename and fnmatch are computed character by character as the Python  *)
(* library computes them.                                                  *)
(***************************************************************************)
EXTENDS Integers, Sequences, FiniteSets, TLC

(***************************************************************************)
(* Bounds of the model.                                                    *)
(***************************************************************************)
MaxArgs == 2
MaxLines == 2
MaxPatterns == 2
MaxStrings == 2
MaxDirs == 2

(***************************************************************************)
(* Sequences up to a length.                                               *)
(***************************************************************************)
SeqsUpTo(S, n) == UNION {[1..k -> S] : k \in 0..n}

Range(s) == {s[k] : k \in 1..Len(s)}

(***************************************************************************)
(* Python values that are not strings or numbers.                          *)
(***************************************************************************)
None == "None"
True == "True"
False == "False"

(***************************************************************************)
(* The inputs the command line is drawn from.  A notebook reference is a   *)
(* path; a listing-file line keeps its newline and surrounding blanks.     *)
(***************************************************************************)
RefNames == { <<"a">>, <<"d", "/", "b">> }

FileLineSet == { <<" ", "a", "\n">>, <<" ", "\n">> }

PatternSet == { <<"d", "/", "*">>, <<"[", "a", "b", "]">> }

Whitespace == {" ", "\n", "\t"}

(***************************************************************************)
(* str.strip(): drop the leading and the trailing whitespace.              *)
(***************************************************************************)
RECURSIVE lstrip(_)
lstrip(s) ==
    IF s # <<>> /\ Head(s) \in Whitespace THEN lstrip(Tail(s)) ELSE s

RECURSIVE rstrip(_, _)
rstrip(s, chars) ==
    IF s # <<>> /\ s[Len(s)] \in chars
    THEN rstrip(SubSeq(s, 1, Len(s) - 1), chars)
    ELSE s

strip(s) == rstrip(lstrip(s), Whitespace)

(***************************************************************************)
(* posixpath.dirname and posixpath.basename.                               *)
(***************************************************************************)
rfind(p, c) ==
    LET hits == {k \in 1..Len(p) : p[k] = c}
    IN  IF hits = {} THEN 0 ELSE CHOOSE k \in hits : \A m \in hits : m <= k

dirname(p) ==
    LET i == rfind(p, "/")
        head == SubSeq(p, 1, i)
    IN  IF head # <<>> /\ Range(head) # {"/"} THEN rstrip(head, {"/"}) ELSE head

basename(p) == SubSeq(p, rfind(p, "/") + 1, Len(p))

(***************************************************************************)
(* fnmatch.fnmatch on a POSIX system (normcase is the identity there):     *)
(* the pattern is translated as fnmatch.translate does, '*' to any string, *)
(* '?' to any one character, '[seq]' and '[!seq]' to a character class,    *)
(* a '[' without a closing ']' to itself, and the whole name must match.   *)
(* The patterns of the model hold no '-', so a class is a plain set.       *)
(***************************************************************************)
RECURSIVE ScanToBracket(_, _)
ScanToBracket(pat, j) ==
    IF j <= Len(pat) /\ pat[j] # "]" THEN ScanToBracket(pat, j + 1) ELSE j

\* index in pat (the text after '[') of the ']' closing the class; 0 if none
BracketEnd(pat) ==
    LET j0 == IF 1 <= Len(pat) /\ pat[1] = "!" THEN 2 ELSE 1
        j1 == IF j0 <= Len(pat) /\ pat[j0] = "]" THEN j0 + 1 ELSE j0
        j == ScanToBracket(pat, j1)
    IN  IF j > Len(pat) THEN 0 ELSE j

InClass(c, stuff) ==
    IF stuff[1] = "!" THEN c \notin Range(Tail(stuff)) ELSE c \in Range(stuff)

RECURSIVE fnmatch(_, _)
fnmatch(name, pat) ==
    IF pat = <<>> THEN name = <<>>
    ELSE LET c == Head(pat)
             rest == Tail(pat)
         IN  IF c = "*"
             THEN fnmatch(name, rest) \/ (name # <<>> /\ fnmatch(Tail(name), pat))
             ELSE IF c = "?"
             THEN name # <<>> /\ fnmatch(Tail(name), rest)
             ELSE IF c = "[" /\ BracketEnd(rest) # 0
             THEN LET j == BracketEnd(rest)
                  IN  /\ name # <<>>
                      /\ InClass(Head(name), SubSeq(rest, 1, j - 1))
                      /\ fnmatch(Tail(name), SubSeq(rest, j + 1, Len(rest)))
             ELSE name # <<>> /\ Head(name) = c /\ fnmatch(Tail(name), rest)

(***************************************************************************)
(* match_by_pattern and its helper string_matches_one_of.                  *)
(***************************************************************************)
RECURSIVE Distinct(_)
Distinct(s) ==
    IF s = <<>> THEN <<>>
    ELSE LET front == SubSeq(s, 1, Len(s) - 1)
             last == s[Len(s)]
         IN  IF \E k \in 1..Len(front) : front[k] = last
             THEN Distinct(front)
             ELSE Append(Distinct(front), last)

\* pattern is a contiguous part of string
Contains(string, pattern) ==
    \E a \in 0..Len(string) :
        /\ a + Len(pattern) <= Len(string)
        /\ SubSeq(string, a + 1, a + Len(pattern)) = pattern

string_matches_substring(string, patterns) ==
    \E k \in 1..Len(patterns) : Contains(string, patterns[k])

string_matches_all(string, patterns) ==
    \A k \in 1..Len(patterns) : fnmatch(string, patterns[k])

string_matches_one_of_swapped(string, patterns) ==
    \E k \in 1..Len(patterns) : fnmatch(patterns[k], string)

string_matches_one_of(string, patterns) ==
    \E k \in 1..Len(patterns) : fnmatch(string, patterns[k])

match_by_pattern_distinct(strings, patterns) ==
    Distinct(SelectSeq(strings,
                       LAMBDA string : string_matches_one_of(string, patterns)))

match_by_pattern(strings, patterns) ==
    SelectSeq(strings, LAMBDA string : string_matches_one_of(string, patterns))

(***************************************************************************)
(* read_notebooks_from_file: the stripped lines that are not blank, or     *)
(* nothing when no listing file is given (args.file is None).              *)
(***************************************************************************)
RECURSIVE StrippedNonBlank(_)
StrippedNonBlank(lines) ==
    IF lines = <<>> THEN <<>>
    ELSE IF strip(Head(lines)) # <<>>
         THEN <<strip(Head(lines))>> \o StrippedNonBlank(Tail(lines))
         ELSE StrippedNonBlank(Tail(lines))

read_notebooks_from_file(file_like) ==
    IF file_like.given THEN StrippedNonBlank(file_like.lines) ELSE <<>>

(***************************************************************************)
(* The reporter.  A printed line records the function that printed it:     *)
(* print, or status / success / error of scripting.prompting.              *)
(***************************************************************************)
Separator == [fn |-> "print", text |-> "-" , name |-> <<>>, n |-> 0]

EntryLine(entry) ==
    IF entry[2] = None
    THEN [fn |-> "status", text |-> "SKIP: ", name |-> entry[1], n |-> 0]
    ELSE IF entry[2] = True
         THEN [fn |-> "success", text |-> "", name |-> entry[1], n |-> 0]
         ELSE [fn |-> "error", text |-> "", name |-> entry[1], n |-> 0]

print_summary(s) ==
    <<Separator>> \o [k \in 1..Len(s) |-> EntryLine(s[k])] \o <<Separator>>

failures_distinct(s) == Distinct(SelectSeq(s, LAMBDA e : e[2] = False))

failures_not_passed(s) == SelectSeq(s, LAMBDA e : e[2] # True)

Failures(s) == SelectSeq(s, LAMBDA e : e[2] = False)

passes_not_failed(s) == SelectSeq(s, LAMBDA e : e[2] # False)

Passes(s) == SelectSeq(s, LAMBDA e : e[2] = True)

AggregateLine(s) ==
    IF Failures(s) # <<>>
    THEN [fn |-> "print", text |-> "FAILED (failures={nfails})", name |-> <<>>,
          n |-> Len(Failures(s))]
    ELSE [fn |-> "print", text |-> "OK Ran {ntests} tests", name |-> <<>>,
          n |-> Len(Passes(s))]

print_success_or_failure(s) == Len(Failures(s))

(***************************************************************************)
(* check_notebook: `dry_run or run_notebook(notebook)` calls run_notebook  *)
(* only when dry_run is false; the result is True unless                   *)
(* subprocess.CalledProcessError was raised, and any other exception       *)
(* leaves check_notebook.                                                  *)
(***************************************************************************)
CallsRunNotebook_always(dry_run) == TRUE

CallsRunNotebook(dry_run) == ~dry_run

Propagates == "propagates"

check_notebook_catch_all(exc) ==
    IF exc = "none" THEN True ELSE False

check_notebook_reraise(exc) ==
    IF exc = "none" THEN True ELSE Propagates

check_notebook(exc) ==
    IF exc = "none" THEN True
    ELSE IF exc = "CalledProcessError" THEN False
    ELSE Propagates

(***************************************************************************)
(* The scope `with cd(os.path.dirname(notebook) or '.')`: on entry the     *)
(* current directory is saved and changed, on every exit it is restored.   *)
(***************************************************************************)
Here == <<>>

chdir(current, path) ==
    IF path = <<".">> THEN current ELSE Append(current, path)

CdTarget(notebook) ==
    IF dirname(notebook) # <<>> THEN dirname(notebook) ELSE <<".">>

CdExit_onlyOnReturn(saved, current, exc) ==
    IF exc = "none" THEN saved ELSE current

CdExit(saved, current, exc) == saved

(***************************************************************************)
(* main: args.func(args) is called and its value dropped, so main returns  *)
(* None; sys.exit(None) ends the process with status 0, sys.exit(n) with   *)
(* the low byte of n.  An uncaught exception ends it with status 1.        *)
(***************************************************************************)
Unset == 0 - 1

main_return(run_command_value) == None

\* the status the system keeps of an integer exit code: its low byte
exit_status(n) == n % 256

sys_exit(value) == IF value = None THEN 0 ELSE exit_status(value)

UncaughtExit == 1

\* parser.error, called when a type= conversion of an argument fails
ArgparseErrorExit == 2

(***************************************************************************)
(* State.                                                                  *)
(***************************************************************************)
VARIABLES
    args,         \* the parsed command line: file, notebook, exclude, dry_run
    pc,           \* where main / run_command stands
    notebooks,    \* run_command: the requested references
    excluded,     \* run_command: match_by_pattern(notebooks, args.exclude)
    summary,      \* run_command: the (notebook, result) pairs recorded
    i,            \* run_command: position of the loop in notebooks (1-based)
    rn_pc,        \* where run_notebook stands
    rn_exc,       \* the exception run_notebook is raising, or "none"
    cwd,          \* the process's current working directory
    cd_saved,     \* the directory the cd scope restores
    call_cwd,     \* the working directory when run_notebook was called
    files,        \* the temporary script files that exist
    script_file,  \* run_notebook: the temporary file of this call
    mk_count,     \* number of temporary files created so far
    open_fds,     \* descriptors open beyond those open at start
    log,          \* the calls and subprocesses so far, in order
    out,          \* the lines printed so far
    ret,          \* the value run_command returned
    exit_code,    \* the status the process ended with
    running,      \* the subprocesses spawned and not yet waited for
    m_strings,    \* match_by_pattern: the argument strings
    m_patterns,   \* match_by_pattern: the argument patterns
    m_matches,    \* match_by_pattern: the list returned
    m_pc,         \* where the call of match_by_pattern stands
    f_tree,       \* find_notebooks: the directory tree under base
    f_stack,      \* os.walk: the directories still to be walked, next first
    f_visited,    \* os.walk: the directories listed so far, in order
    f_notebooks,  \* find_notebooks: the list notebooks
    f_pc,         \* where the call of find_notebooks stands
    f_sort,       \* find_command: args.sort
    f_out,        \* find_command: the lines printed
    c_script,     \* convert_notebook: the lines the converter printed
    c_result,     \* convert_notebook: the lines of the script returned
    c_pc,         \* where the call of convert_notebook stands
    t_paths,      \* run_tutorials: the argument paths
    t_i,          \* run_tutorials: position of the loop in paths (1-based)
    t_status,     \* run_tutorials: the defaultdict status
    t_pc,         \* where the tutorial runner stands
    t_cwd,        \* the tutorial runner's current working directory
    t_here,       \* run_tutorial: here
    t_exc,        \* the exception run_tutorial is raising, or "none"
    t_exit,       \* the status the tutorial runner ended with
    t_log,        \* the calls of the tutorial runner so far, in order
    n_paths,      \* the paths the test functions pass to _notebook_run
    n_i,          \* position of the test function that runs (1-based)
    n_pc,         \* where _notebook_run stands
    n_cwd,        \* the test process's current working directory
    n_before,     \* the working directory when _notebook_run was called
    n_log         \* the calls of the test process so far, in order

vars == <<args, pc, notebooks, excluded, summary, i, rn_pc, rn_exc, cwd,
          cd_saved, call_cwd, files, script_file, mk_count, open_fds, log,
          out, ret, exit_code, running, m_strings, m_patterns, m_matches,
          m_pc, f_tree, f_stack, f_visited, f_notebooks, f_pc, f_sort, f_out,
          c_script, c_result, c_pc, t_paths, t_i, t_status, t_pc, t_cwd,
          t_here, t_exc, t_exit, t_log, n_paths, n_i, n_pc, n_cwd, n_before,
          n_log>>

matchvars == <<m_strings, m_patterns, m_matches, m_pc>>

findvars == <<f_tree, f_stack, f_visited, f_notebooks, f_pc, f_sort, f_out>>

convvars == <<c_script, c_result, c_pc>>

tutvars == <<t_paths, t_i, t_status, t_pc, t_cwd, t_here, t_exc, t_exit, t_log>>

testvars == <<n_paths, n_i, n_pc, n_cwd, n_before, n_log>>

runvars == <<args, pc, notebooks, excluded, summary, i, rn_pc, rn_exc, cwd,
             cd_saved, call_cwd, files, script_file, mk_count, open_fds, log,
             out, ret, exit_code, running>>

\* -f/--file: absent, or a file that argparse.FileType('r') can or cannot
\* open, and whose lines can or cannot all be read
FileArgs ==
    {[given |-> FALSE, readable |-> "ok", lines |-> <<>>]}
        \cup {[given |-> TRUE, readable |-> r, lines |-> l] :
                 r \in {"ok", "open_fails", "read_fails"},
                 l \in SeqsUpTo(FileLineSet, MaxLines)}

OpenFails(file_like) == file_like.given /\ file_like.readable = "open_fails"

ReadFails_ignored(file_like) == FALSE

ReadFails(file_like) == file_like.given /\ file_like.readable = "read_fails"

NoFile == <<Here, 0>>

\* the run subcommand is not in play
NoArgs ==
    [file |-> [given |-> FALSE, readable |-> "ok", lines |-> <<>>],
     notebook |-> <<>>, exclude |-> <<>>, dry_run |-> FALSE]

RunRest ==
    /\ notebooks = <<>>
    /\ excluded = <<>>
    /\ summary = <<>>
    /\ i = 1
    /\ rn_pc = "idle"
    /\ rn_exc = "none"
    /\ cwd = Here
    /\ cd_saved = Here
    /\ call_cwd = Here
    /\ files = {}
    /\ script_file = NoFile
    /\ mk_count = 0
    /\ open_fds = 0
    /\ log = <<>>
    /\ out = <<>>
    /\ ret = Unset
    /\ exit_code = Unset
    /\ running = {}

RunIdle ==
    /\ args = NoArgs
    /\ pc = "idle"
    /\ RunRest

MatchIdle ==
    /\ m_strings = <<>>
    /\ m_patterns = <<>>
    /\ m_matches = <<>>
    /\ m_pc = "idle"

NoTree == [exists |-> FALSE, dirs |-> <<>>, files |-> <<>>, sub |-> <<>>]

FindIdle ==
    /\ f_tree = NoTree
    /\ f_stack = <<>>
    /\ f_visited = <<>>
    /\ f_notebooks = <<>>
    /\ f_pc = "idle"
    /\ f_sort = FALSE
    /\ f_out = <<>>

\* convert_notebook is not called on its own
ConvIdle ==
    /\ c_script = <<>>
    /\ c_result = <<>>
    /\ c_pc = "idle"

\* collections.defaultdict(list) with no key yet
EmptyDict == [key \in {} |-> <<>>]

\* the tutorial runner is not in play
TutIdle ==
    /\ t_paths = <<>>
    /\ t_i = 1
    /\ t_status = EmptyDict
    /\ t_pc = "idle"
    /\ t_cwd = Here
    /\ t_here = Here
    /\ t_exc = "none"
    /\ t_exit = Unset
    /\ t_log = <<>>

\* the test functions are not in play
TestIdle ==
    /\ n_paths = <<>>
    /\ n_i = 1
    /\ n_pc = "idle"
    /\ n_cwd = <<>>
    /\ n_before = <<>>
    /\ n_log = <<>>

OthersIdle ==
    /\ ConvIdle
    /\ TutIdle
    /\ TestIdle

Init ==
    /\ args \in [file : FileArgs,
                 notebook : SeqsUpTo(RefNames, MaxArgs),
                 exclude : SeqsUpTo(PatternSet, MaxPatterns),
                 dry_run : BOOLEAN]
    /\ pc = "start"
    /\ RunRest
    /\ MatchIdle
    /\ FindIdle
    /\ OthersIdle

Event(kind, idx, status) == [kind |-> kind, idx |-> idx, status |-> status]

(***************************************************************************)
(* run_command, lines 151-155: the requested list and the excluded ones.   *)
(***************************************************************************)
RequestedNotebooks_argsFirst(a) ==
    a.notebook \o read_notebooks_from_file(a.file)

RequestedNotebooks(a) == read_notebooks_from_file(a.file) \o a.notebook

\* line 194: parse_args opens the listing file (argparse.FileType('r'));
\* a file that cannot be opened ends the process in parser.error
ParseArgs ==
    /\ pc = "start"
    /\ IF OpenFails(args.file)
       THEN /\ pc' = "aborted"
            /\ exit_code' = ArgparseErrorExit
       ELSE /\ pc' = "main"
            /\ UNCHANGED exit_code
    /\ UNCHANGED <<args, notebooks, excluded, summary, i, rn_pc, rn_exc, cwd,
                   cd_saved, call_cwd, files, script_file, mk_count, open_fds,
                   log, out, ret, running>>
    /\ UNCHANGED <<matchvars, findvars, convvars, tutvars, testvars>>

\* lines 151-155; an error while the lines are read leaves run_command
RunCommandStart ==
    /\ pc = "main"
    /\ IF ReadFails(args.file)
       THEN /\ pc' = "aborted"
            /\ exit_code' = UncaughtExit
            /\ UNCHANGED <<notebooks, excluded, summary, i>>
       ELSE /\ notebooks' = RequestedNotebooks(args)
            /\ excluded' = match_by_pattern(notebooks', args.exclude)
            /\ summary' = <<>>
            /\ i' = 1
            /\ pc' = "loop"
            /\ UNCHANGED exit_code
    /\ UNCHANGED <<args, rn_pc, rn_exc, cwd, cd_saved, call_cwd, files,
                   script_file, mk_count, open_fds, log, out, ret, running>>
    /\ UNCHANGED <<matchvars, findvars, convvars, tutvars, testvars>>

InList(x, list) == \E k \in 1..Len(list) : list[k] = x

\* a loop that keeps every report for the final summary
Record_noStream(result) ==
    /\ out' = out
    /\ summary' = Append(summary, result)
    /\ i' = i + 1

\* lines 161-162: print_summary([result]); summary.append(result)
Record(result) ==
    /\ out' = out \o print_summary(<<result>>)
    /\ summary' = Append(summary, result)
    /\ i' = i + 1

\* lines 157-158: the reference is in excluded
LoopSkip ==
    /\ pc = "loop"
    /\ i <= Len(notebooks)
    /\ InList(notebooks[i], excluded)
    /\ Record(<<notebooks[i], None>>)
    /\ UNCHANGED <<args, pc, notebooks, excluded, rn_pc, rn_exc, cwd, cd_saved,
                   call_cwd, files, script_file, mk_count, open_fds, log, ret,
                   exit_code>>
    /\ UNCHANGED running
    /\ UNCHANGED <<matchvars, findvars, convvars, tutvars, testvars>>

\* line 160 with dry_run set: check_notebook returns True without a call
LoopDryRun ==
    /\ pc = "loop"
    /\ i <= Len(notebooks)
    /\ ~InList(notebooks[i], excluded)
    /\ ~CallsRunNotebook(args.dry_run)
    /\ log' = Append(log, Event("check_notebook", i, 0))
    /\ Record(<<notebooks[i], check_notebook("none")>>)
    /\ UNCHANGED <<args, pc, notebooks, excluded, rn_pc, rn_exc, cwd, cd_saved,
                   call_cwd, files, script_file, mk_count, open_fds, ret,
                   exit_code>>
    /\ UNCHANGED running
    /\ UNCHANGED <<matchvars, findvars, convvars, tutvars, testvars>>

\* line 160 with dry_run unset: check_notebook calls run_notebook
LoopCallRunNotebook ==
    /\ pc = "loop"
    /\ i <= Len(notebooks)
    /\ ~InList(notebooks[i], excluded)
    /\ CallsRunNotebook(args.dry_run)
    /\ log' = log \o <<Event("check_notebook", i, 0), Event("run_notebook", i, 0)>>
    /\ pc' = "check"
    /\ rn_pc' = "cd"
    /\ rn_exc' = "none"
    /\ call_cwd' = cwd
    /\ script_file' = NoFile
    /\ UNCHANGED <<args, notebooks, excluded, summary, i, cwd, cd_saved, files,
                   mk_count, open_fds, out, ret, exit_code>>
    /\ UNCHANGED running
    /\ UNCHANGED <<matchvars, findvars, convvars, tutvars, testvars>>

(***************************************************************************)
(* run_notebook, one step per system call or subprocess.  A step that      *)
(* raises leaves the cd scope in the same step, and so does the last one.  *)
(***************************************************************************)
Raise(exc) ==
    /\ rn_exc' = exc
    /\ rn_pc' = "raised"

\* line 34: cd saves os.getcwd() and changes the directory
CdEnter ==
    /\ rn_pc = "cd"
    /\ \E ok \in BOOLEAN :
        /\ log' = Append(log, Event("chdir", i, IF ok THEN 0 ELSE 1))
        /\ IF ok
           THEN /\ cd_saved' = cwd
                /\ cwd' = chdir(cwd, CdTarget(notebooks[i]))
                /\ rn_pc' = "convert"
                /\ UNCHANGED rn_exc
           ELSE /\ Raise("OSError")
                /\ UNCHANGED <<cwd, cd_saved>>
    /\ UNCHANGED <<args, pc, notebooks, excluded, summary, i, call_cwd, files,
                   script_file, mk_count, open_fds, out, ret, exit_code>>
    /\ UNCHANGED running
    /\ UNCHANGED <<matchvars, findvars, convvars, tutvars, testvars>>

Process(kind, idx) == [kind |-> kind, idx |-> idx]

\* lines 20-21 and 35: convert_notebook spawns jupyter nbconvert on the
\* notebook's basename (check_output) ...
ConvertSpawn ==
    /\ rn_pc = "convert"
    /\ running' = running \cup {Process("nbconvert", i)}
    /\ rn_pc' = "convert_wait"
    /\ UNCHANGED <<args, pc, notebooks, excluded, summary, i, rn_exc, cwd,
                   cd_saved, call_cwd, files, script_file, mk_count, open_fds,
                   log, out, ret, exit_code>>
    /\ UNCHANGED <<matchvars, findvars, convvars, tutvars, testvars>>

\* a converter whose exit status is not looked at
Convert_ignoreStatus ==
    /\ rn_pc = "convert_wait"
    /\ running' = running \ {Process("nbconvert", i)}
    /\ \E status \in {0, 1} :
        /\ log' = Append(log, Event("nbconvert", i, status))
    /\ rn_pc' = "mkstemp"
    /\ UNCHANGED <<args, pc, notebooks, excluded, summary, i, rn_exc, cwd,
                   cd_saved, call_cwd, files, script_file, mk_count, open_fds,
                   out, ret, exit_code>>
    /\ UNCHANGED <<matchvars, findvars, convvars, tutvars, testvars>>

\* ... and blocks until it has ended; a non-zero status raises
\* CalledProcessError
Convert ==
    /\ rn_pc = "convert_wait"
    /\ running' = running \ {Process("nbconvert", i)}
    /\ \E status \in {0, 1} :
        /\ log' = Append(log, Event("nbconvert", i, status))
        /\ IF status = 0
           THEN /\ rn_pc' = "mkstemp"
                /\ UNCHANGED <<rn_exc, cwd>>
           ELSE /\ Raise("CalledProcessError")
                /\ cwd' = CdExit(cd_saved, cwd, "CalledProcessError")
    /\ UNCHANGED <<args, pc, notebooks, excluded, summary, i, cd_saved, call_cwd,
                   files, script_file, mk_count, open_fds, out, ret, exit_code>>
    /\ UNCHANGED <<matchvars, findvars, convvars, tutvars, testvars>>

\* line 36: tempfile.mkstemp creates the file in '.' and returns an open
\* descriptor, which is bound to _ and never closed
Mkstemp ==
    /\ rn_pc = "mkstemp"
    /\ \E ok \in BOOLEAN :
        /\ log' = Append(log, Event("mkstemp", i, IF ok THEN 0 ELSE 1))
        /\ IF ok
           THEN /\ mk_count' = mk_count + 1
                /\ script_file' = <<cwd, mk_count + 1>>
                /\ files' = files \cup {<<cwd, mk_count + 1>>}
                /\ open_fds' = open_fds + 1
                /\ rn_pc' = "write"
                /\ UNCHANGED <<rn_exc, cwd>>
           ELSE /\ Raise("OSError")
                /\ cwd' = CdExit(cd_saved, cwd, "OSError")
                /\ UNCHANGED <<mk_count, script_file, files, open_fds>>
    /\ UNCHANGED <<args, pc, notebooks, excluded, summary, i, cd_saved, call_cwd,
                   out, ret, exit_code>>
    /\ UNCHANGED running
    /\ UNCHANGED <<matchvars, findvars, convvars, tutvars, testvars>>

\* lines 37-38: the script is written, outside the try statement
Write ==
    /\ rn_pc = "write"
    /\ \E ok \in BOOLEAN :
        /\ log' = Append(log, Event("write", i, IF ok THEN 0 ELSE 1))
        /\ IF ok
           THEN /\ rn_pc' = "ipython"
                /\ UNCHANGED <<rn_exc, cwd>>
           ELSE /\ Raise("OSError")
                /\ cwd' = CdExit(cd_saved, cwd, "OSError")
    /\ UNCHANGED <<args, pc, notebooks, excluded, summary, i, cd_saved, call_cwd,
                   files, script_file, mk_count, open_fds, out, ret, exit_code>>
    /\ UNCHANGED running
    /\ UNCHANGED <<matchvars, findvars, convvars, tutvars, testvars>>

\* a spawn that does not wait for the interpreter (subprocess.Popen)
IpythonSpawn_noWait ==
    /\ rn_pc = "ipython"
    /\ running' = running \cup {Process("ipython", i)}
    /\ rn_pc' = "remove"
    /\ UNCHANGED <<args, pc, notebooks, excluded, summary, i, rn_exc, cwd,
                   cd_saved, call_cwd, files, script_file, mk_count, open_fds,
                   log, out, ret, exit_code>>
    /\ UNCHANGED <<matchvars, findvars, convvars, tutvars, testvars>>

\* lines 39-40: subprocess.check_call(['ipython', script_file]) spawns the
\* interpreter ...
IpythonSpawn ==
    /\ rn_pc = "ipython"
    /\ running' = running \cup {Process("ipython", i)}
    /\ rn_pc' = "ipython_wait"
    /\ UNCHANGED <<args, pc, notebooks, excluded, summary, i, rn_exc, cwd,
                   cd_saved, call_cwd, files, script_file, mk_count, open_fds,
                   log, out, ret, exit_code>>
    /\ UNCHANGED <<matchvars, findvars, convvars, tutvars, testvars>>

\* a wait that never returns (the child blocked on a pipe nobody reads)
Ipython_pipeDeadlock ==
    /\ rn_pc = "ipython_wait"
    /\ FALSE
    /\ UNCHANGED vars

\* ... and blocks until it has ended; a non-zero status raises
\* CalledProcessError, re-raised by the except clause (lines 41-42)
Ipython ==
    /\ rn_pc = "ipython_wait"
    /\ running' = running \ {Process("ipython", i)}
    /\ \E status \in {0, 1} :
        /\ log' = Append(log, Event("ipython", i, status))
        /\ rn_exc' = IF status = 0 THEN "none" ELSE "CalledProcessError"
    /\ rn_pc' = "remove"
    /\ UNCHANGED <<args, pc, notebooks, excluded, summary, i, cwd, cd_saved,
                   call_cwd, files, script_file, mk_count, open_fds, out, ret,
                   exit_code>>
    /\ UNCHANGED <<matchvars, findvars, convvars, tutvars, testvars>>

\* lines 43-44: finally os.remove(script_file); an error raised here
\* replaces the exception being raised.  Then the cd scope is left.
Remove ==
    /\ rn_pc = "remove"
    /\ \E ok \in BOOLEAN :
        /\ log' = Append(log, Event("remove", i, IF ok THEN 0 ELSE 1))
        /\ files' = IF ok THEN files \ {script_file} ELSE files
        /\ rn_exc' = IF ok THEN rn_exc ELSE "OSError"
        /\ rn_pc' = IF rn_exc' = "none" THEN "returned" ELSE "raised"
        /\ cwd' = CdExit(cd_saved, cwd, rn_exc')
    /\ UNCHANGED <<args, pc, notebooks, excluded, summary, i, cd_saved, call_cwd,
                   script_file, mk_count, open_fds, out, ret, exit_code>>
    /\ UNCHANGED running
    /\ UNCHANGED <<matchvars, findvars, convvars, tutvars, testvars>>

(***************************************************************************)
(* Back in check_notebook (lines 72-77) and run_command (lines 160-162):   *)
(* the result is recorded, or the exception leaves run_command and main    *)
(* and the interpreter ends the process.                                   *)
(***************************************************************************)
CheckNotebookReturn ==
    /\ pc = "check"
    /\ rn_pc \in {"returned", "raised"}
    /\ rn_pc' = "idle"
    /\ IF check_notebook(rn_exc) = Propagates
       THEN /\ pc' = "aborted"
            /\ exit_code' = UncaughtExit
            /\ UNCHANGED <<summary, i, out>>
       ELSE /\ pc' = "loop"
            /\ Record(<<notebooks[i], check_notebook(rn_exc)>>)
            /\ UNCHANGED exit_code
    /\ UNCHANGED <<args, notebooks, excluded, rn_exc, cwd, cd_saved, call_cwd,
                   files, script_file, mk_count, open_fds, log, ret>>
    /\ UNCHANGED running
    /\ UNCHANGED <<matchvars, findvars, convvars, tutvars, testvars>>

\* lines 164-165: the final summary, the aggregate line, the returned count
RunCommandFinish ==
    /\ pc = "loop"
    /\ i > Len(notebooks)
    /\ out' = out \o print_summary(summary) \o <<AggregateLine(summary)>>
    /\ ret' = print_success_or_failure(summary)
    /\ pc' = "returned"
    /\ UNCHANGED <<args, notebooks, excluded, summary, i, rn_pc, rn_exc, cwd,
                   cd_saved, call_cwd, files, script_file, mk_count, open_fds,
                   log, exit_code>>
    /\ UNCHANGED running
    /\ UNCHANGED <<matchvars, findvars, convvars, tutvars, testvars>>

\* lines 195 and 199: sys.exit(main())
MainExit ==
    /\ pc = "returned"
    /\ exit_code' = sys_exit(main_return(ret))
    /\ pc' = "exited"
    /\ UNCHANGED <<args, notebooks, excluded, summary, i, rn_pc, rn_exc, cwd,
                   cd_saved, call_cwd, files, script_file, mk_count, open_fds,
                   log, out, ret>>
    /\ UNCHANGED running
    /\ UNCHANGED <<matchvars, findvars, convvars, tutvars, testvars>>

Next ==
    \/ ParseArgs
    \/ RunCommandStart
    \/ LoopSkip
    \/ LoopDryRun
    \/ LoopCallRunNotebook
    \/ CdEnter
    \/ ConvertSpawn
    \/ Convert
    \/ Mkstemp
    \/ Write
    \/ IpythonSpawn
    \/ Ipython
    \/ Remove
    \/ CheckNotebookReturn
    \/ RunCommandFinish
    \/ MainExit

Spec == Init /\ [][Next]_vars

\* the steps the harness takes by itself: it is one sequential process that
\* waits for nothing but the two subprocesses, and sets no timeout on them
HarnessStep ==
    \/ ParseArgs
    \/ RunCommandStart
    \/ LoopSkip
    \/ LoopDryRun
    \/ LoopCallRunNotebook
    \/ CdEnter
    \/ ConvertSpawn
    \/ Mkstemp
    \/ Write
    \/ IpythonSpawn
    \/ Remove
    \/ CheckNotebookReturn
    \/ RunCommandFinish
    \/ MainExit

\* the run in which the harness keeps going and every spawned converter
\* and interpreter ends by itself
SpecLive ==
    /\ Init
    /\ [][Next]_vars
    /\ WF_vars(HarnessStep)
    /\ WF_vars(Convert)
    /\ WF_vars(Ipython)

(***************************************************************************)
(* match_by_pattern called on its own: any strings and any patterns, some  *)
(* of them holding the glob metacharacters, and the list it returns.       *)
(***************************************************************************)
MatchNames ==
    { <<"a">>, <<"a", "b">>, <<"[", "a", "]">>, <<"a", "*">> }

InitMatch ==
    /\ m_strings \in SeqsUpTo(MatchNames, MaxStrings)
    /\ m_patterns \in SeqsUpTo(MatchNames, MaxPatterns)
    /\ m_matches = <<>>
    /\ m_pc = "call"
    /\ RunIdle
    /\ FindIdle
    /\ OthersIdle

MatchCall ==
    /\ m_pc = "call"
    /\ m_matches' = match_by_pattern(m_strings, m_patterns)
    /\ m_pc' = "done"
    /\ UNCHANGED <<m_strings, m_patterns, findvars, convvars, tutvars, testvars>>
    /\ UNCHANGED <<args, pc, notebooks, excluded, summary, i, rn_pc, rn_exc, cwd,
                   cd_saved, call_cwd, files, script_file, mk_count, open_fds,
                   log, out, ret, exit_code, running>>

NextMatch == MatchCall

SpecMatch == InitMatch /\ [][NextMatch]_vars

(***************************************************************************)
(* find_notebooks(base).  The tree under base: whether base exists, its    *)
(* subdirectories and files in the order the system lists them, and the    *)
(* files of each subdirectory.  os.walk(base, topdown=True) lists one      *)
(* directory per step, hands (root, dirs, files) to the loop body, and     *)
(* then walks the names the body left in dirs; an error of the listing is  *)
(* ignored (onerror is None), so a base that does not exist gives no step. *)
(***************************************************************************)
Base == <<"t">>

DirNames == { <<".", "h">>, <<".", "g">>, <<"s">> }

FileNames ==
    { <<"n", ".", "i", "p", "y", "n", "b">>,
      <<"n", ".", "i", "p", "y", "n", "b", "~">> }

NotebookExtension == <<".", "i", "p", "y", "n", "b">>

\* the lists of at most n different elements of S
Orderings(S, n) ==
    {q \in SeqsUpTo(S, n) : \A a, b \in 1..Len(q) : a # b => q[a] # q[b]}

FileListings == Orderings(FileNames, Cardinality(FileNames))

Trees ==
    UNION {{[exists |-> TRUE, dirs |-> d, files |-> f, sub |-> g] :
                f \in FileListings, g \in [Range(d) -> FileListings]} :
           d \in Orderings(DirNames, MaxDirs)}

startswith(s, prefix) ==
    Len(prefix) <= Len(s) /\ SubSeq(s, 1, Len(prefix)) = prefix

endswith(s, suffix) ==
    Len(suffix) <= Len(s) /\ SubSeq(s, Len(s) - Len(suffix) + 1, Len(s)) = suffix

\* posixpath.join of a path and a relative name
join(a, b) ==
    IF a = <<>> \/ a[Len(a)] = "/" THEN a \o b ELSE a \o <<"/">> \o b

\* list.remove(x): the list without the first element equal to x
list_remove(list, x) ==
    LET k == CHOOSE n \in 1..Len(list) :
                 list[n] = x /\ \A o \in 1..(n - 1) : list[o] # x
    IN  SubSeq(list, 1, k - 1) \o SubSeq(list, k + 1, Len(list))

\* lines 131-133: `for dir in dirs: if dir.startswith('.'): dirs.remove(dir)`;
\* the list iterator goes on at the next index of the list as it is now
RECURSIVE PruneHidden(_, _)
PruneHidden(dirs, idx) ==
    IF idx > Len(dirs) THEN dirs
    ELSE IF startswith(dirs[idx], <<".">>)
         THEN PruneHidden(list_remove(dirs, dirs[idx]), idx + 1)
         ELSE PruneHidden(dirs, idx + 1)

IsNotebook_contains(file_path) == Contains(file_path, NotebookExtension)

\* line 136: file_path.endswith('.ipynb')
IsNotebook(file_path) == endswith(file_path, NotebookExtension)

\* what os.walk finds in the directory root
ListDirs(tree, root) == IF root = Base THEN tree.dirs ELSE <<>>

ListFiles(tree, root) ==
    IF root = Base THEN tree.files ELSE tree.sub[basename(root)]

InitFind ==
    /\ f_tree \in Trees \cup {NoTree}
    /\ f_stack = <<>>
    /\ f_visited = <<>>
    /\ f_notebooks = <<>>
    /\ f_pc = "call"
    /\ f_sort \in BOOLEAN
    /\ f_out = <<>>
    /\ RunIdle
    /\ MatchIdle
    /\ OthersIdle

FindFrame ==
    /\ UNCHANGED <<matchvars, convvars, tutvars, testvars>>
    /\ UNCHANGED <<args, pc, notebooks, excluded, summary, i, rn_pc, rn_exc, cwd,
                   cd_saved, call_cwd, files, script_file, mk_count, open_fds,
                   log, out, ret, exit_code, running>>

\* lines 129-130: notebooks = [] and the walk of base begins
FindCall ==
    /\ f_pc = "call"
    /\ f_notebooks' = <<>>
    /\ IF f_tree.exists
       THEN f_stack' = <<Base>> /\ f_pc' = "walk"
       ELSE f_stack' = <<>> /\ f_pc' = "done"
    /\ UNCHANGED <<f_tree, f_visited, f_sort, f_out>>
    /\ FindFrame

\* lines 130-137: one turn of the loop over os.walk
WalkStep ==
    /\ f_pc = "walk"
    /\ f_stack # <<>>
    /\ LET root == Head(f_stack)
           dirs == PruneHidden(ListDirs(f_tree, root), 1)
           paths == [k \in 1..Len(ListFiles(f_tree, root)) |->
                        join(root, ListFiles(f_tree, root)[k])]
       IN  /\ f_visited' = Append(f_visited, root)
           /\ f_notebooks' = f_notebooks \o SelectSeq(paths, IsNotebook)
           /\ f_stack' = [k \in 1..Len(dirs) |-> join(root, dirs[k])]
                            \o Tail(f_stack)
    /\ UNCHANGED <<f_tree, f_pc, f_sort, f_out>>
    /\ FindFrame

\* line 138: return notebooks
FindReturn ==
    /\ f_pc = "walk"
    /\ f_stack = <<>>
    /\ f_pc' = "done"
    /\ UNCHANGED <<f_tree, f_stack, f_visited, f_notebooks, f_sort, f_out>>
    /\ FindFrame

\* the code point of a character of a path
ord(c) ==
    CASE c = "." -> 46
      [] c = "/" -> 47
      [] c = "b" -> 98
      [] c = "g" -> 103
      [] c = "h" -> 104
      [] c = "i" -> 105
      [] c = "n" -> 110
      [] c = "p" -> 112
      [] c = "s" -> 115
      [] c = "t" -> 116
      [] c = "y" -> 121
      [] c = "~" -> 126

\* a < b for two str: the first differing character decides, else the length
RECURSIVE str_lt(_, _)
str_lt(a, b) ==
    IF a = <<>> THEN b # <<>>
    ELSE IF b = <<>> THEN FALSE
    ELSE IF a[1] = b[1] THEN str_lt(Tail(a), Tail(b))
    ELSE ord(a[1]) < ord(b[1])

\* list.sort(): the same elements in ascending order, equal ones in the
\* order they had
RECURSIVE sort(_)
sort(list) ==
    IF list = <<>> THEN <<>>
    ELSE LET rest == sort(Tail(list))
             k == Cardinality({n \in 1..Len(rest) : str_lt(rest[n], Head(list))})
         IN  SubSeq(rest, 1, k) \o <<Head(list)>> \o SubSeq(rest, k + 1, Len(rest))

\* print(os.linesep.join(notebooks)): one line per path, and one empty line
\* for an empty list
PrintedLines(list) == IF list = <<>> THEN << <<>> >> ELSE list

\* find_command, lines 144-147: sort when asked to, then print
FindCommandPrint ==
    /\ f_pc = "done"
    /\ f_notebooks' = IF f_sort THEN sort(f_notebooks) ELSE f_notebooks
    /\ f_out' = PrintedLines(f_notebooks')
    /\ f_pc' = "printed"
    /\ UNCHANGED <<f_tree, f_stack, f_visited, f_sort>>
    /\ FindFrame

NextFind ==
    \/ FindCall
    \/ WalkStep
    \/ FindReturn
    \/ FindCommandPrint

SpecFind == InitFind /\ [][NextFind]_vars

(***************************************************************************)
(* convert_notebook.  A line of the converted script is a tuple of pieces: *)
(* the fixed texts the two patterns look for, and single characters.  Both *)
(* patterns are compiled with re.MULTILINE, so `^` is the start of a line, *)
(* and each is applied to every line by sub.                               *)
(***************************************************************************)
MaxScript == 2

Magic == "get_ipython().magic("

\* the pieces that \w matches, and those that \s matches
WordPieces == {"x", "u", "inline", "auto", "pinfo"}

SpacePieces == {" ", "    "}

ConverterLines ==
    { <<Magic, "u", "'", "pinfo", " ", "x", "'", ")">>,
      <<Magic, "'", "pinfo", " ", "x", "'", ")">>,
      <<Magic, "u", "'", "pinfo", " ", "x", ".", "x", "'", ")">>,
      <<"    ", Magic, "u", "'", "pinfo", " ", "x", "'", ")">>,
      <<Magic, "u", "'", "matplotlib ", "inline", "'", ")">>,
      <<Magic, "'", "matplotlib ", "inline", "'", ")">>,
      <<"x">> }

\* the line from piece j on is the pieces of text
LooksAt(line, j, text) ==
    /\ j + Len(text) - 1 <= Len(line)
    /\ SubSeq(line, j, j + Len(text) - 1) = text

\* the first position from j on whose piece is not in class
RECURSIVE RunEnd(_, _, _)
RunEnd(line, j, class) ==
    IF j <= Len(line) /\ line[j] \in class THEN RunEnd(line, j + 1, class) ELSE j

\* line 23: ^get_ipython\(\)\.magic\(u?'matplotlib (?P<magic>\w+)'\) ;
\* the number of pieces matched at the start of the line, 0 for no match
MatplotlibMatch(line) ==
    LET q == IF LooksAt(line, 1, <<Magic, "u">>) THEN 3 ELSE 2
        w == q + 2
        e == RunEnd(line, w, WordPieces)
    IN  IF /\ LooksAt(line, 1, <<Magic>>)
           /\ LooksAt(line, q, <<"'", "matplotlib ">>)
           /\ e > w
           /\ LooksAt(line, e, <<"'", ")">>)
        THEN e + 1 ELSE 0

\* line 25: the match is replaced by get_ipython().magic(u'matplotlib auto')
SubMatplotlib(line) ==
    IF MatplotlibMatch(line) = 0 THEN line
    ELSE <<Magic, "u", "'", "matplotlib ", "auto", "'", ")">>
            \o SubSeq(line, MatplotlibMatch(line) + 1, Len(line))

\* line 26: (?P<magic>^get_ipython\(\)\.magic\(u'pinfo[\w\s]+'\))
PinfoMatch(line) ==
    LET e == RunEnd(line, 5, WordPieces \cup SpacePieces)
    IN  IF /\ LooksAt(line, 1, <<Magic, "u", "'", "pinfo">>)
           /\ e > 5
           /\ LooksAt(line, e, <<"'", ")">>)
        THEN e + 1 ELSE 0

\* line 28: the match is replaced by "# " and the match itself
SubPinfo(line) ==
    IF PinfoMatch(line) = 0 THEN line ELSE <<"# ">> \o line

\* lines 20-30, after check_output has returned the converter's output
convert_notebook(script) ==
    [k \in 1..Len(script) |-> SubPinfo(SubMatplotlib(script[k]))]

InitConvert ==
    /\ c_script \in SeqsUpTo(ConverterLines, MaxScript)
    /\ c_result = <<>>
    /\ c_pc = "call"
    /\ RunIdle
    /\ MatchIdle
    /\ FindIdle
    /\ TutIdle
    /\ TestIdle

ConvertCall ==
    /\ c_pc = "call"
    /\ c_result' = convert_notebook(c_script)
    /\ c_pc' = "done"
    /\ UNCHANGED c_script
    /\ UNCHANGED <<runvars, matchvars, findvars, tutvars, testvars>>

NextConvert == ConvertCall

SpecConvert == InitConvert /\ [][NextConvert]_vars

(***************************************************************************)
(* .ci/run_tutorials.py.  main runs every tutorial that find_tutorials     *)
(* finds; run_tutorial changes into the tutorial's directory, pipes the    *)
(* header and the script into python and goes back in a finally clause.    *)
(* status is a collections.defaultdict(list): reading a key that is not    *)
(* there puts it there, with an empty list.                                *)
(***************************************************************************)
MaxTutorials == 2

\* glob('./**/*.py'): ./d/x and ./e/y
TutorialPaths ==
    { <<".", "/", "d", "/", "x">>, <<".", "/", "e", "/", "y">> }

\* defaultdict.__getitem__: the dict after a key has been read
DictAfterGet(dict, key) ==
    IF key \in DOMAIN dict THEN dict
    ELSE [k \in DOMAIN dict \cup {key} |->
             IF k = key THEN <<>> ELSE dict[k]]

\* status[key].append(path)
DictAppend(dict, key, path) ==
    [DictAfterGet(dict, key) EXCEPT ![key] = Append(@, path)]

\* lines 57-59: whether errors['fail'] raises KeyError
RaisesKeyError(dict, key) == FALSE

\* a handler that takes every exception for a failed tutorial
run_tutorials_branch_catchAll(exc) ==
    IF exc = "none" THEN "pass" ELSE "fail"

\* lines 21-30: the branch of the try statement an outcome of run_tutorial
\* takes
run_tutorials_branch(exc) ==
    IF exc = "none" THEN "pass"
    ELSE IF exc = "CalledProcessError" THEN "fail"
    ELSE Propagates

\* a restore placed in the except clause
RunTutorialExit_exceptOnly(here, current, exc) ==
    IF exc = "CalledProcessError" THEN here ELSE current

\* lines 50-51: finally os.chdir(here)
RunTutorialExit(here, current, exc) == here

InitTutorials ==
    /\ t_paths \in SeqsUpTo(TutorialPaths, MaxTutorials)
    /\ t_i = 1
    /\ t_status = EmptyDict
    /\ t_pc = "main"
    /\ t_cwd = Here
    /\ t_here = Here
    /\ t_exc = "none"
    /\ t_exit = Unset
    /\ t_log = <<>>
    /\ RunIdle
    /\ MatchIdle
    /\ FindIdle
    /\ ConvIdle
    /\ TestIdle

TutFrame == UNCHANGED <<runvars, matchvars, findvars, convvars, testvars>>

\* lines 55 and 19: main calls run_tutorials, which creates status
RunTutorialsStart ==
    /\ t_pc = "main"
    /\ t_status' = EmptyDict
    /\ t_i' = 1
    /\ t_pc' = "loop"
    /\ UNCHANGED <<t_paths, t_cwd, t_here, t_exc, t_exit, t_log>>
    /\ TutFrame

\* lines 20-23 and 36: the next path; run_tutorial saves the directory
RunTutorialCall ==
    /\ t_pc = "loop"
    /\ t_i <= Len(t_paths)
    /\ t_here' = t_cwd
    /\ t_exc' = "none"
    /\ t_pc' = "chdir"
    /\ t_log' = Append(t_log, Event("run_tutorial", t_i, 0))
    /\ UNCHANGED <<t_paths, t_i, t_status, t_cwd, t_exit>>
    /\ TutFrame

\* lines 38-39: os.chdir(dirname), before the try statement
TutChdir ==
    /\ t_pc = "chdir"
    /\ \E ok \in BOOLEAN :
        /\ t_log' = Append(t_log, Event("chdir", t_i, IF ok THEN 0 ELSE 1))
        /\ IF ok
           THEN /\ t_cwd' = chdir(t_cwd, dirname(t_paths[t_i]))
                /\ t_pc' = "popen"
                /\ UNCHANGED t_exc
           ELSE /\ t_exc' = "OSError"
                /\ t_pc' = "raised"
                /\ UNCHANGED t_cwd
    /\ UNCHANGED <<t_paths, t_i, t_status, t_here, t_exit>>
    /\ TutFrame

\* line 45: subprocess.Popen(cat, stdout=subprocess.PIPE), inside the try
\* statement: an OSError goes through the finally clause
TutPopen ==
    /\ t_pc = "popen"
    /\ \E ok \in BOOLEAN :
        /\ t_log' = Append(t_log, Event("cat", t_i, IF ok THEN 0 ELSE 1))
        /\ IF ok
           THEN /\ t_pc' = "open"
                /\ UNCHANGED <<t_exc, t_cwd>>
           ELSE /\ t_exc' = "OSError"
                /\ t_pc' = "raised"
                /\ t_cwd' = RunTutorialExit(t_here, t_cwd, "OSError")
    /\ UNCHANGED <<t_paths, t_i, t_status, t_here, t_exit>>
    /\ TutFrame

\* line 46: open('stdout.out', 'w')
TutOpen ==
    /\ t_pc = "open"
    /\ \E ok \in BOOLEAN :
        /\ t_log' = Append(t_log, Event("open", t_i, IF ok THEN 0 ELSE 1))
        /\ IF ok
           THEN /\ t_pc' = "python"
                /\ UNCHANGED <<t_exc, t_cwd>>
           ELSE /\ t_exc' = "OSError"
                /\ t_pc' = "raised"
                /\ t_cwd' = RunTutorialExit(t_here, t_cwd, "OSError")
    /\ UNCHANGED <<t_paths, t_i, t_status, t_here, t_exit>>
    /\ TutFrame

\* lines 47-51: check_call(['python'], ...) waits for the interpreter; a
\* non-zero status raises CalledProcessError, which the except clause
\* raises again; the finally clause goes back to here
TutPython ==
    /\ t_pc = "python"
    /\ \E status \in {0, 1} :
        /\ t_log' = Append(t_log, Event("python", t_i, status))
        /\ t_exc' = IF status = 0 THEN "none" ELSE "CalledProcessError"
        /\ t_pc' = IF status = 0 THEN "returned" ELSE "raised"
        /\ t_cwd' = RunTutorialExit(t_here, t_cwd, t_exc')
    /\ UNCHANGED <<t_paths, t_i, t_status, t_here, t_exit>>
    /\ TutFrame

\* lines 24-30: back in run_tutorials; an exception that is not
\* CalledProcessError leaves run_tutorials and main
RunTutorialReturn ==
    /\ t_pc \in {"returned", "raised"}
    /\ IF run_tutorials_branch(t_exc) = Propagates
       THEN /\ t_pc' = "aborted"
            /\ t_exit' = UncaughtExit
            /\ UNCHANGED <<t_status, t_i>>
       ELSE /\ t_status' = DictAppend(t_status, run_tutorials_branch(t_exc),
                                      t_paths[t_i])
            /\ t_i' = t_i + 1
            /\ t_pc' = "loop"
            /\ UNCHANGED t_exit
    /\ UNCHANGED <<t_paths, t_cwd, t_here, t_exc, t_log>>
    /\ TutFrame

\* line 32: return status
RunTutorialsReturn ==
    /\ t_pc = "loop"
    /\ t_i > Len(t_paths)
    /\ t_pc' = "print"
    /\ UNCHANGED <<t_paths, t_i, t_status, t_cwd, t_here, t_exc, t_exit, t_log>>
    /\ TutFrame

\* lines 57-62: print(errors['fail']) in a try statement
TutMainExit ==
    /\ t_pc = "print"
    /\ t_exit' = IF RaisesKeyError(t_status, "fail")
                 THEN exit_status(0) ELSE exit_status(0 - 1)
    /\ t_status' = DictAfterGet(t_status, "fail")
    /\ t_pc' = "exited"
    /\ UNCHANGED <<t_paths, t_i, t_cwd, t_here, t_exc, t_log>>
    /\ TutFrame

NextTutorials ==
    \/ RunTutorialsStart
    \/ RunTutorialCall
    \/ TutChdir
    \/ TutPopen
    \/ TutOpen
    \/ TutPython
    \/ RunTutorialReturn
    \/ RunTutorialsReturn
    \/ TutMainExit

SpecTutorials == InitTutorials /\ [][NextTutorials]_vars

(***************************************************************************)
(* test_notebooks.py.  Each test function calls _notebook_run with a path  *)
(* below _TEST_DIR; the test runner calls them one after the other in one  *)
(* process, whether or not an earlier one raised.                          *)
(***************************************************************************)
MaxTests == 2

\* _TEST_DIR = os.path.dirname(__file__), an absolute path under the runner
TestDir == <<"/", "r">>

\* the directories the test process may be started in
StartDirs == {TestDir, <<"/">>}

\* tutorial_template.ipynb sits in _TEST_DIR, the others one level below
TestNames ==
    { <<"t">>, <<"m", "/", "m">>, <<"f", "/", "l">> }

\* os.chdir to an absolute path: the directory is that path
chdir_absolute(current, path) == path

InitTest ==
    /\ n_paths \in SeqsUpTo({join(TestDir, name) : name \in TestNames}, MaxTests)
    /\ n_i = 1
    /\ n_pc = "next"
    /\ n_cwd \in StartDirs
    /\ n_before = n_cwd
    /\ n_log = <<>>
    /\ RunIdle
    /\ MatchIdle
    /\ FindIdle
    /\ ConvIdle
    /\ TutIdle

TestFrame == UNCHANGED <<runvars, matchvars, findvars, convvars, tutvars>>

\* lines 37-39 and alike: the next test function calls _notebook_run
NotebookRunCall ==
    /\ n_pc = "next"
    /\ n_i <= Len(n_paths)
    /\ n_before' = n_cwd
    /\ n_pc' = "chdir"
    /\ UNCHANGED <<n_paths, n_i, n_cwd, n_log>>
    /\ TestFrame

\* lines 17-18: os.chdir(dirname)
NotebookRunChdir ==
    /\ n_pc = "chdir"
    /\ \E ok \in BOOLEAN :
        /\ n_log' = Append(n_log, Event("chdir", n_i, IF ok THEN 0 ELSE 1))
        /\ n_cwd' = IF ok THEN chdir_absolute(n_cwd, dirname(n_paths[n_i]))
                     ELSE n_cwd
        /\ n_pc' = IF ok THEN "execute" ELSE "raised"
    /\ UNCHANGED <<n_paths, n_i, n_before>>
    /\ TestFrame

\* lines 19-34: nbconvert executes the notebook (check_call) and the result
\* is read; nothing changes the directory again
NotebookRunExecute ==
    /\ n_pc = "execute"
    /\ \E status \in {0, 1} :
        /\ n_log' = Append(n_log, Event("nbconvert", n_i, status))
        /\ n_pc' = IF status = 0 THEN "returned" ELSE "raised"
    /\ UNCHANGED <<n_paths, n_i, n_cwd, n_before>>
    /\ TestFrame

\* the test function ends, passed or failed, and the runner goes on
TestFunctionEnd ==
    /\ n_pc \in {"returned", "raised"}
    /\ n_i' = n_i + 1
    /\ n_pc' = "next"
    /\ UNCHANGED <<n_paths, n_cwd, n_before, n_log>>
    /\ TestFrame

NextTest ==
    \/ NotebookRunCall
    \/ NotebookRunChdir
    \/ NotebookRunExecute
    \/ TestFunctionEnd

SpecTest == InitTest /\ [][NextTest]_vars

(***************************************************************************)
(* What the claims speak of.                                               *)
(***************************************************************************)
Done == pc \in {"returned", "exited"}

\* the reference matches at least one exclude pattern
Matches(notebook) == \E p \in Range(args.exclude) : fnmatch(notebook, p)

\* the positions at which a call or subprocess of this kind ended so
Logged(kind, status) ==
    {log[k].idx : k \in {m \in 1..Len(log) :
                            log[m].kind = kind /\ log[m].status = status}}

FailEntries == {k \in 1..Len(summary) : summary[k][2] = False}

LastLine == out[Len(out)]

\* the lines of the listing file that hold more than whitespace
NonBlankLines ==
    SelectSeq(args.file.lines, LAMBDA l : ~(Range(l) \subseteq Whitespace))

\* r is the line l without the whitespace around it
IsStripOf(r, l) ==
    /\ r # <<>>
    /\ r[1] \notin Whitespace
    /\ r[Len(r)] \notin Whitespace
    /\ \E a \in 0..Len(l) :
        /\ a + Len(r) <= Len(l)
        /\ SubSeq(l, a + 1, a + Len(r)) = r
        /\ \A k \in 1..a : l[k] \in Whitespace
        /\ \A k \in (a + Len(r) + 1)..Len(l) : l[k] \in Whitespace

\* C1: when the run subcommand has processed all its references and the
\* process has exited, the exit code is the number of FAIL entries of the
\* summary (so it is zero exactly when no notebook failed).
C1_ExitCodeIsFailCount ==
    pc = "exited" => exit_code = Cardinality(FailEntries)

\* C2: in a completed run without dry_run in which no reference is excluded,
\* no converter fails and exactly k interpreters exit non-zero, run_command
\* returns k, and for k > 0 the aggregate line is "FAILED (failures=k)".
C2_ReturnsInterpreterFailures ==
    (/\ Done
     /\ ~args.dry_run
     /\ \A j \in 1..Len(notebooks) : ~Matches(notebooks[j])
     /\ Logged("nbconvert", 1) = {})
    => LET k == Cardinality(Logged("ipython", 1))
       IN  /\ ret = k
           /\ k > 0 => /\ LastLine.fn = "print"
                       /\ LastLine.text = "FAILED (failures={nfails})"
                       /\ LastLine.n = k

C2_Witness ==
    /\ Done
    /\ ~args.dry_run
    /\ \A j \in 1..Len(notebooks) : ~Matches(notebooks[j])
    /\ Logged("nbconvert", 1) = {}
    /\ Cardinality(Logged("ipython", 1)) = 2
    /\ Cardinality(Logged("ipython", 0)) >= 1
    /\ \E j, k \in Logged("ipython", 1) : j # k /\ notebooks[j] = notebooks[k]

\* C3: in a completed run in which every executed notebook succeeded,
\* print_success_or_failure returns 0 and prints "OK Ran N tests", N being
\* the number of requested references that match no exclude pattern.
C3_AllPassedOkRanN ==
    (/\ Done
     /\ Logged("nbconvert", 1) = {}
     /\ Logged("ipython", 1) = {})
    => /\ ret = 0
       /\ LastLine.fn = "print"
       /\ LastLine.text = "OK Ran {ntests} tests"
       /\ LastLine.n = Cardinality({j \in 1..Len(notebooks) : ~Matches(notebooks[j])})

C3_Witness ==
    /\ Done
    /\ ~args.dry_run
    /\ Logged("nbconvert", 1) = {}
    /\ Logged("ipython", 1) = {}
    /\ Cardinality(Logged("ipython", 0)) >= 2
    /\ \E j \in 1..Len(notebooks) : Matches(notebooks[j])

\* C4: a requested reference that matches an exclude pattern, at every one
\* of its occurrences, is recorded as SKIP and neither check_notebook nor
\* run_notebook nor any subprocess is ever started for it; a completed run
\* has recorded every such occurrence.
C4_ExcludedNeverExecuted ==
    /\ \A j \in 1..Len(notebooks) :
        Matches(notebooks[j])
        => /\ \A k \in 1..Len(log) : log[k].idx # j
           /\ j <= Len(summary) => summary[j] = <<notebooks[j], None>>
    /\ Done => Len(summary) = Len(notebooks)

C4_Witness ==
    /\ Done
    /\ ~args.dry_run
    /\ \E j, k \in 1..Len(notebooks) :
        /\ j < k
        /\ notebooks[j] = notebooks[k]
        /\ Matches(notebooks[j])
        /\ summary[j][2] = None
        /\ summary[k][2] = None
    /\ Logged("ipython", 1) # {}

\* C5: in a completed run with dry_run set, every requested reference is
\* recorded with the SKIP result (None) and none as PASS or FAIL.
C5_DryRunRecordsSkip ==
    (Done /\ args.dry_run)
    => \A j \in 1..Len(summary) : summary[j][2] = None

\* C6: with dry_run set, run_notebook is never called and no converter or
\* interpreter subprocess is ever spawned.
C6_DryRunSpawnsNothing ==
    args.dry_run
    => /\ running = {}
       /\ \A k \in 1..Len(log) :
            log[k].kind \notin {"run_notebook", "chdir", "nbconvert", "mkstemp",
                                "write", "ipython", "remove"}

C6_Witness ==
    /\ Done
    /\ args.dry_run
    /\ args.exclude # <<>>
    /\ Len(summary) >= 3
    /\ \E j \in 1..Len(summary) : ~Matches(notebooks[j])
    /\ \E j \in 1..Len(summary) : Matches(notebooks[j])

\* C7: when run_command completes, the references of the summary are the
\* requested ones in order: the stripped non-blank lines of the listing
\* file, then the positional arguments, one entry per occurrence.
C7_SummaryKeepsRequestedOrder ==
    Done
    => /\ Len(summary) = Len(NonBlankLines) + Len(args.notebook)
       /\ \A k \in 1..Len(NonBlankLines) : IsStripOf(summary[k][1], NonBlankLines[k])
       /\ \A k \in 1..Len(args.notebook) :
            summary[Len(NonBlankLines) + k][1] = args.notebook[k]

C7_Witness ==
    /\ Done
    /\ Len(NonBlankLines) = 1
    /\ Len(args.file.lines) = 2
    /\ Len(args.notebook) = 2
    /\ args.notebook[1] = args.notebook[2]
    /\ args.notebook[1] # summary[1][1]
    /\ summary[1][2] = None
    /\ summary[2][2] = False
    /\ summary[3][2] = True

\* C8: once run_notebook has returned or raised, the working directory is
\* the one that was current when it was called.
C8_CwdRestored ==
    rn_pc \in {"returned", "raised"} => cwd = call_cwd

C8_Witness ==
    /\ rn_pc = "raised"
    /\ rn_exc = "OSError"
    /\ dirname(notebooks[i]) # <<>>
    /\ i \in Logged("ipython", 1)
    /\ i \in Logged("remove", 1)
    /\ \E j \in Logged("nbconvert", 1) : dirname(notebooks[j]) # <<>>
    /\ cwd = call_cwd

\* C9: once run_notebook has returned or raised after creating its
\* temporary script file, that file no longer exists (the removal itself
\* not having failed).
C9_TempFileRemoved ==
    (/\ rn_pc \in {"returned", "raised"}
     /\ script_file # NoFile
     /\ i \notin Logged("remove", 1))
    => script_file \notin files

\* C10 as stated: once a reference whose interpreter exited non-zero has
\* been dealt with, FAIL is recorded for it and the loop has moved on, and
\* a completed run has recorded every reference.
C10_InterpreterFailureRecorded ==
    \A j \in Logged("ipython", 1) :
        ~(pc = "check" /\ i = j)
        => /\ j <= Len(summary)
           /\ summary[j] = <<notebooks[j], False>>
           /\ i > j
           /\ Done => Len(summary) = Len(notebooks)

\* C10 amended: the same, for a reference whose interpreter exited non-zero
\* and whose temporary script file was then removed without error.
C10_FailureRecordedWhenRemoved ==
    \A j \in Logged("ipython", 1) \cap Logged("remove", 0) :
        ~(pc = "check" /\ i = j)
        => /\ j <= Len(summary)
           /\ summary[j] = <<notebooks[j], False>>
           /\ i > j
           /\ Done => Len(summary) = Len(notebooks)

C10_Witness ==
    /\ Done
    /\ 1 \in Logged("ipython", 1) \cap Logged("remove", 0)
    /\ summary[1][2] = False
    /\ Len(summary) >= 3
    /\ 2 \in Logged("ipython", 0)
    /\ summary[2][2] = True
    /\ 3 \in Logged("ipython", 1)

\* the positions at which a step other than a subprocess raised an error
InfrastructureErrors ==
    Logged("chdir", 1) \cup Logged("mkstemp", 1) \cup Logged("write", 1)
        \cup Logged("remove", 1)

\* C11: an error raised while a notebook is executed that is not the
\* CalledProcessError of a subprocess is not recorded as FAIL: once it has
\* left run_notebook's caller the run is aborted with no result recorded
\* for that reference, nothing is done for any later reference, and the
\* process has ended with a non-zero status.
C11_OtherErrorsAbortRun ==
    \A j \in InfrastructureErrors :
        ~(pc = "check" /\ i = j)
        => /\ pc = "aborted"
           /\ Len(summary) = j - 1
           /\ \A k \in 1..Len(log) : log[k].idx <= j
           /\ ret = Unset
           /\ exit_code # Unset
           /\ exit_code # 0

C11_Witness ==
    /\ pc = "aborted"
    /\ Len(notebooks) = 3
    /\ Logged("write", 1) = {2}
    /\ summary = <<<<notebooks[1], False>>>>
    /\ ~Matches(notebooks[3])
    /\ exit_code = UncaughtExit

C13_UnreadableListingFailsFirst ==
    (args.file.given /\ args.file.readable # "ok")
    => /\ log = <<>>
       /\ running = {}
       /\ summary = <<>>
       /\ out = <<>>
       /\ files = {}
       /\ pc \in {"start", "main", "aborted"}
       /\ pc = "main" => args.file.readable = "read_fails"
       /\ pc = "aborted" => exit_code \notin {Unset, 0}

C13_Witness ==
    /\ pc = "aborted"
    /\ args.file.readable = "read_fails"
    /\ Len(args.file.lines) = 2
    /\ NonBlankLines # <<>>
    /\ Len(args.notebook) = 2
    /\ ~args.dry_run
    /\ args.exclude = <<>>

\* C20: at most one subprocess is alive at any time, it belongs to the
\* reference the loop stands at, every earlier reference has its result
\* recorded before anything is done for a later one, and the calls and
\* subprocesses follow the order of the requested list.
C20_OneNotebookAtATime ==
    /\ Cardinality(running) <= 1
    /\ \A r \in running : pc = "check" /\ r.idx = i /\ Len(summary) = i - 1
    /\ rn_pc \notin {"idle"} => pc = "check"
    /\ \A k \in 1..Len(log) : log[k].idx <= Len(summary) + 1
    /\ \A k, m \in 1..Len(log) : k < m => log[k].idx <= log[m].idx

C20_Witness ==
    /\ running = {Process("ipython", 3)}
    /\ 1 \in Logged("ipython", 1)
    /\ 2 \in Logged("nbconvert", 1)
    /\ 3 \in Logged("nbconvert", 0)
    /\ Len(summary) = 2

\* the positions of m_strings that match at least one of m_patterns
MatchingPositions ==
    {k \in 1..Len(m_strings) :
        \E p \in 1..Len(m_patterns) : fnmatch(m_strings[k], m_patterns[p])}

GlobMeta == {"*", "?", "["}

\* C17: match_by_pattern(candidates, patterns) returns the candidates that
\* match at least one pattern, and only those, in the order of candidates
\* and once per occurrence.
C17_MatchesAreTheMatchingSubsequence ==
    m_pc = "done"
    => /\ Len(m_matches) = Cardinality(MatchingPositions)
       /\ \E f \in [1..Len(m_matches) -> MatchingPositions] :
            /\ \A n \in 1..Len(m_matches) : m_matches[n] = m_strings[f[n]]
            /\ \A n, o \in 1..Len(m_matches) : n < o => f[n] < f[o]

C17_Witness ==
    /\ m_pc = "done"
    /\ Len(m_strings) = 2
    /\ m_strings[1] = m_strings[2]
    /\ Len(m_matches) = 2
    /\ Len(m_patterns) = 2
    /\ ~fnmatch(m_strings[1], m_patterns[1])
    /\ fnmatch(m_strings[1], m_patterns[2])

\* C18: with no pattern, match_by_pattern returns the empty list.
C18_NoPatternNoMatch ==
    (m_pc = "done" /\ m_patterns = <<>>) => m_matches = <<>>

C18_Witness ==
    /\ m_pc = "done"
    /\ m_patterns = <<>>
    /\ Len(m_strings) = 2
    /\ m_strings[1] # m_strings[2]
    /\ m_matches = <<>>

\* the occurrences of p in m_strings, in order
Occurrences(p) == SelectSeq(m_strings, LAMBDA string : string = p)

\* C19 as stated: with the single pattern a candidate path p, whatever
\* characters p holds, match_by_pattern returns p (at each of its
\* occurrences) and no other candidate.
C19_ExactPathMatchesItself ==
    (m_pc = "done" /\ Len(m_patterns) = 1 /\ m_patterns[1] \in Range(m_strings))
    => m_matches = Occurrences(m_patterns[1])

\* C19 amended: the same for a path p that holds none of the glob
\* metacharacters '*', '?' and '['.
C19_PlainPathMatchesItself ==
    (/\ m_pc = "done"
     /\ Len(m_patterns) = 1
     /\ m_patterns[1] \in Range(m_strings)
     /\ Range(m_patterns[1]) \cap GlobMeta = {})
    => m_matches = Occurrences(m_patterns[1])

C19_Witness ==
    /\ m_pc = "done"
    /\ m_patterns = << <<"a">> >>
    /\ m_strings = << <<"a", "b">>, <<"a">> >>
    /\ m_matches = << <<"a">> >>

\* a directory component of the path starts with '.'
HasHiddenDir(path, last) ==
    \E k \in 1..last : path[k] = "." /\ (k = 1 \/ path[k - 1] = "/")

\* C14: find_notebooks returns no path with a directory component that
\* starts with '.', and lists no such directory.
C14_HiddenDirectoriesPruned ==
    f_pc = "done"
    => /\ \A k \in 1..Len(f_notebooks) :
            ~HasHiddenDir(f_notebooks[k], rfind(f_notebooks[k], "/"))
       /\ \A k \in 1..Len(f_visited) :
            ~HasHiddenDir(f_visited[k], Len(f_visited[k]))

\* C15: find_notebooks does not return normally for a base that does not
\* exist.
C15_MissingBaseRaises ==
    ~f_tree.exists => f_pc # "done"

\* the notebooks of the tree that are not beneath a hidden directory
VisibleNotebooks ==
    {join(Base, f) : f \in {g \in Range(f_tree.files) :
                                endswith(g, NotebookExtension)}}
        \cup UNION {{join(join(Base, d), f) :
                        f \in {g \in Range(f_tree.sub[d]) :
                                   endswith(g, NotebookExtension)}} :
                    d \in {e \in Range(f_tree.dirs) : e[1] # "."}}

\* C16: find_notebooks returns every file under base that ends with
\* '.ipynb' and is not beneath a hidden directory, returns no path twice,
\* and returns no path that does not end with '.ipynb'.
C16_EveryNotebookOnce ==
    (f_pc = "done" /\ f_tree.exists)
    => /\ VisibleNotebooks \subseteq Range(f_notebooks)
       /\ \A k, m \in 1..Len(f_notebooks) :
            k # m => f_notebooks[k] # f_notebooks[m]
       /\ \A k \in 1..Len(f_notebooks) :
            endswith(f_notebooks[k], NotebookExtension)

C16_Witness ==
    /\ f_pc = "done"
    /\ f_tree.dirs = << <<"s">>, <<".", "h">> >>
    /\ Len(f_tree.files) = 2
    /\ Len(f_tree.sub[<<"s">>]) = 2
    /\ Len(f_tree.sub[<<".", "h">>]) = 2
    /\ Len(f_notebooks) = 2
    /\ f_visited = << Base, join(Base, <<"s">>) >>

\* the lines print_summary prints for one entry on its own
ItemReport(entry) == <<Separator, EntryLine(entry), Separator>>

\* C21: the report of the item at each position is printed once its result
\* is known and before the executor is called for the next position, so
\* whenever the executor is at work at position i the output is exactly the
\* reports of the i-1 earlier items; the full summary is printed only once
\* the loop has ended, and then every item has been printed exactly twice.
C21_EachItemStreamedThenSummarised ==
    /\ \A k \in 1..Len(summary) :
         /\ 3 * k <= Len(out)
         /\ SubSeq(out, 3 * k - 2, 3 * k) = ItemReport(summary[k])
    /\ pc \in {"loop", "check"} => Len(out) = 3 * Len(summary)
    /\ pc = "check" => Len(summary) = i - 1
    /\ Done
       => /\ Len(summary) = Len(notebooks)
          /\ Len(out) = 4 * Len(summary) + 3
          /\ out[3 * Len(summary) + 1] = Separator
          /\ \A k \in 1..Len(summary) :
                out[3 * Len(summary) + 1 + k] = EntryLine(summary[k])
          /\ out[4 * Len(summary) + 2] = Separator

C21_Witness ==
    /\ pc = "returned"
    /\ Len(summary) = 3
    /\ summary[1][2] = None
    /\ 2 \in Logged("ipython", 1)
    /\ 3 \in Logged("ipython", 0)

\* C27: outside a call of run_notebook no descriptor is open that was not
\* open when the run began, however many notebooks have been executed.
C27_NoDescriptorLeftOpen ==
    rn_pc \in {"idle", "returned", "raised"} => open_fds = 0

\* the number of entries of the summary with this result
CountOf(s, result) == Cardinality({k \in 1..Len(s) : s[k][2] = result})

\* C29: print_success_or_failure puts every entry of the summary in exactly
\* one of failure (False), pass (True) and skip (None); it returns the
\* number of failures, prints that number when there is a failure and the
\* number of passes otherwise, counts no skip in either, and leaves the
\* summary as it was.
C29_ClassifiesEachEntryOnce ==
    [][(pc = "loop" /\ pc' = "returned")
       => /\ summary' = summary
          /\ CountOf(summary, False) + CountOf(summary, True)
               + CountOf(summary, None) = Len(summary)
          /\ ret' = CountOf(summary, False)
          /\ out'[Len(out')] =
               IF CountOf(summary, False) > 0
               THEN [fn |-> "print", text |-> "FAILED (failures={nfails})",
                     name |-> <<>>, n |-> CountOf(summary, False)]
               ELSE [fn |-> "print", text |-> "OK Ran {ntests} tests",
                     name |-> <<>>, n |-> CountOf(summary, True)]]_vars

C29_Witness ==
    /\ pc = "returned"
    /\ CountOf(summary, None) = 2
    /\ CountOf(summary, True) = 1
    /\ CountOf(summary, False) = 0
    /\ LastLine.n = 1
    /\ ret = 0

\* an error that is not the failure of a subprocess was raised
UnexpectedError ==
    \/ OpenFails(args.file)
    \/ ReadFails(args.file)
    \/ InfrastructureErrors # {}

\* C22: when every converter and interpreter ends by itself, the run ends:
\* either an unexpected error has aborted it, or run_command has recorded a
\* result for every requested reference, printed the final summary and the
\* aggregate line, and returned the number of failures.
C22_RunCommandFinishes ==
    /\ [](pc = "aborted" => UnexpectedError)
    /\ <>(\/ pc = "aborted"
          \/ /\ Done
             /\ Len(summary) = Len(notebooks)
             /\ SubSeq(out, Len(out) - Len(summary) - 2, Len(out) - 1)
                  = print_summary(summary)
             /\ LastLine = AggregateLine(summary)
             /\ ret = Cardinality(FailEntries))

C22_Witness ==
    /\ pc = "exited"
    /\ ~UnexpectedError
    /\ Len(summary) = 4
    /\ Cardinality(Logged("ipython", 0) \cup Logged("ipython", 1)) = 4
    /\ Cardinality(Logged("nbconvert", 0)) = 4

\* what the walk of a tree returns, directory by directory: the notebooks
\* of base, then those of each subdirectory the pruning loop left listed
NotebooksIn(root, names) ==
    SelectSeq([k \in 1..Len(names) |-> join(root, names[k])],
              LAMBDA p : endswith(p, NotebookExtension))

RECURSIVE NotebooksBelow(_, _)
NotebooksBelow(tree, dirs) ==
    IF dirs = <<>> THEN <<>>
    ELSE NotebooksIn(join(Base, Head(dirs)), tree.sub[Head(dirs)])
            \o NotebooksBelow(tree, Tail(dirs))

WalkResult(tree) ==
    IF ~tree.exists THEN <<>>
    ELSE NotebooksIn(Base, tree.files)
            \o NotebooksBelow(tree, PruneHidden(tree.dirs, 1))

\* the walk of the actions returns what WalkResult says
WalkResultIsWhatTheWalkReturns ==
    f_pc = "done" => f_notebooks = WalkResult(f_tree)

\* the trees with the same content, listed by the system in any order
SameContent(tree) ==
    {t \in Trees \cup {NoTree} :
        /\ t.exists = tree.exists
        /\ Range(t.dirs) = Range(tree.dirs)
        /\ Range(t.files) = Range(tree.files)
        /\ \A d \in Range(t.dirs) : Range(t.sub[d]) = Range(tree.sub[d])}

\* C26: what `find <path> --sort` prints is what it prints for the same
\* tree listed by the system in any other order.
C26_SortedOutputIgnoresListingOrder ==
    (f_pc = "printed" /\ f_sort)
    => \A t \in SameContent(f_tree) :
          PrintedLines(sort(WalkResult(t))) = f_out

\* the line begins with a pinfo directive, its string literal written with
\* or without the u prefix
IsPinfoDirective(line) ==
    \/ LooksAt(line, 1, <<Magic, "u", "'", "pinfo">>)
    \/ LooksAt(line, 1, <<Magic, "'", "pinfo">>)

\* C25: convert_notebook returns the script with every line that begins
\* with a pinfo directive, in either form of its string literal, prefixed
\* by the comment marker, and with as many lines as the converter printed.
C25_EveryPinfoLineCommentedOut ==
    c_pc = "done"
    => /\ Len(c_result) = Len(c_script)
       /\ \A k \in 1..Len(c_script) :
            IsPinfoDirective(c_script[k])
            => c_result[k] = <<"# ">> \o c_script[k]

\* the list under a key of status, empty when the key is not there
Under(key) == IF key \in DOMAIN t_status THEN t_status[key] ELSE <<>>

\* the positions of paths whose interpreter ended with this status
TutorialsEnded(status) ==
    {t_log[k].idx : k \in {m \in 1..Len(t_log) :
                              t_log[m].kind = "python" /\ t_log[m].status = status}}

\* the paths at the positions of S, in the order of paths
RECURSIVE PathsAt(_, _)
PathsAt(S, from) ==
    IF from > Len(t_paths) THEN <<>>
    ELSE (IF from \in S THEN <<t_paths[from]>> ELSE <<>>) \o PathsAt(S, from + 1)

\* C23: the tutorial runner exits with status zero exactly when no tutorial
\* is recorded under 'fail'.
C23_ExitZeroIffNoFailure ==
    t_pc = "exited" => (t_exit = 0 <=> Under("fail") = <<>>)

\* C28: when run_tutorials returns, the paths under 'pass' are those whose
\* interpreter ended with status zero and the paths under 'fail' those whose
\* interpreter ended with another status, each list in the order of paths,
\* and every position of paths is in one of the two; so every tutorial
\* after a failing one was run.
C28_StatusPartitionsPaths ==
    t_pc = "print"
    => /\ Under("pass") = PathsAt(TutorialsEnded(0), 1)
       /\ Under("fail") = PathsAt(TutorialsEnded(1), 1)
       /\ TutorialsEnded(0) \cup TutorialsEnded(1) = 1..Len(t_paths)
       /\ TutorialsEnded(0) \cap TutorialsEnded(1) = {}
       /\ Len(Under("pass")) + Len(Under("fail")) = Len(t_paths)

C28_Witness ==
    /\ t_pc = "print"
    /\ Len(t_paths) = 2
    /\ TutorialsEnded(1) = {1}
    /\ TutorialsEnded(0) = {2}
    /\ Under("fail") = <<t_paths[1]>>
    /\ Under("pass") = <<t_paths[2]>>

\* C30: once run_tutorial has returned or raised, the working directory is
\* the one that was current when it was called, whichever step failed.
C30_RunTutorialRestoresCwd ==
    t_pc \in {"returned", "raised", "loop", "print", "exited", "aborted"}
    => /\ t_cwd = t_here
       /\ t_cwd = Here

C30_Witness ==
    /\ t_pc = "raised"
    /\ t_exc = "OSError"
    /\ t_i = 2
    /\ t_log[Len(t_log)] = Event("open", 2, 1)
    /\ Event("python", 1, 1) \in Range(t_log)
    /\ t_cwd = Here

\* C24: once _notebook_run has returned or raised, the working directory
\* is the one that was current when it was called.
C24_NotebookRunRestoresCwd ==
    n_pc \in {"returned", "raised"} => n_cwd = n_before

====
